---- MODULE Spec2Model ----
(***************************************************************************)
(* The Carousel component (components/carousel): current index, the        *)
(* auto-scroll interval timer, the drag handlers of its ScrollView, the    *)
(* momentum-scroll-end handler and the preload effect; the Modal           *)
(* (components/modal) with its visibility effect, exit animations and      *)
(* sub-parts; the Button's press handler; the Toast's show sequence.       *)
(*                                                                         *)
(* One action is one event handled by the component together with the      *)
(* re-render and the effects React runs after it.  Time is discrete: one   *)
(* Elapse step is one unit of time, and autoScrollInterval is a number of  *)
(* such units.                                                             *)
(***************************************************************************)
EXTENDS Integers, Sequences, FiniteSets, TLC

\* ---- bounds of the model ----
MaxItems == 3        \* largest dataset
MaxInterval == 2     \* largest autoScrollInterval, in time units
MaxInflight == 3     \* most prefetch promises outstanding at once
MaxTicks == 2        \* longest run of ticks that is counted

\* Dimensions.get('window').width, in offset units
SCREEN_WIDTH == 2

Indices == 0 .. (MaxItems - 1)
Lengths == 0 .. MaxItems
Intervals == 1 .. MaxInterval
Offsets == (0 - SCREEN_WIDTH) .. ((MaxItems + 1) * SCREEN_WIDTH)

VARIABLES
    mounted,             \* the component instance is mounted
    dataLen,             \* data.length
    autoScroll,          \* prop autoScroll
    autoScrollInterval,  \* prop autoScrollInterval
    enableHaptics,       \* prop enableHaptics
    enablePreloading,    \* prop enablePreloading
    platformWeb,         \* Platform.OS === 'web'
    currentIndex,        \* useState currentIndex
    autoScrollTimer,     \* autoScrollTimer.current: 0 is null, else a timer id
    timers,              \* live setInterval timers: [id, len, ivl, rem]
    dragging,            \* the ScrollView is between begin-drag and end-drag
    inflight,            \* outstanding Image.prefetch promises per index
    scrollCmds,          \* scrollTo x offsets issued by the last step
    imageChanges,        \* onImageChange indices passed by the last step
    haptics,             \* Haptics.impactAsync calls made by the last step
    prefetched,          \* Image.prefetch indices requested by the last step
    warns,               \* console.warn calls made by the last step
    ev,                  \* the event handled by the last step
    arg,                 \* its argument (the index a scroll end computed)
    fired,               \* timer callbacks run by the last step
    reconfigured,        \* a prop changed during the drag in progress
    runStart,            \* currentIndex when the current run of ticks began
    runTicks,            \* ticks fired in the current run
    imagePresses,        \* onImagePress indices passed by the last step
    \* -- Modal --
    isVisible,           \* prop isVisible
    animation,           \* prop animation
    modalVisible,        \* useState modalVisible
    opacity,             \* shared value opacity and the animation driving it
    translateY,          \* shared value translateY and its animation
    scale,               \* shared value scale and its animation
    effectPending,       \* the visibility effect has yet to run for this render
    hideQueued,          \* runOnJS(hideModal) calls not yet run on the JS thread
    part,                \* the Modal sub-part rendered by the last step
    hasContext,          \* whether it was rendered inside a Modal
    outcome,             \* what rendering it did
    \* -- Button --
    disabled,            \* prop disabled
    loading,             \* prop loading
    buttonHaptics,       \* the Button's prop enableHaptics
    hasOnPress,          \* an onPress handler was passed
    onPressCalls,        \* onPress calls made by the last step
    presses,             \* touches released on the button so far
    \* -- Toast --
    visible,             \* prop visible
    duration,            \* prop duration, in time units
    hasOnHide,           \* an onHide handler was passed
    toastOpacity,        \* the Toast's shared value opacity and its animation
    onHideCalls,         \* onHide calls made by the last step
    seqCallback,         \* the callback of the sequence, as run by the last step
    held,                \* time the running sequence has spent in its delay
    seqHides             \* onHide calls the running sequence has made

\* the Carousel's variables; ev, haptics and platformWeb are shared
carouselVars == << mounted, dataLen, autoScroll, autoScrollInterval,
                   enableHaptics, enablePreloading, currentIndex,
                   autoScrollTimer, timers, dragging, inflight, scrollCmds,
                   imageChanges, prefetched, warns, arg, fired, reconfigured,
                   runStart, runTicks, imagePresses >>

modalVars == << isVisible, animation, modalVisible, opacity, translateY,
                scale, effectPending, hideQueued, part, hasContext, outcome >>

buttonVars == << disabled, loading, buttonHaptics, hasOnPress, onPressCalls,
                 presses >>

toastVars == << visible, duration, hasOnHide, toastOpacity, onHideCalls,
                seqCallback, held, seqHides >>

vars == << carouselVars, modalVars, buttonVars, toastVars, ev, haptics,
           platformWeb >>

\* the component's own state and resources (no outputs, no history)
progState == << mounted, dataLen, autoScroll, autoScrollInterval,
                enableHaptics, enablePreloading, platformWeb, currentIndex,
                autoScrollTimer, timers, dragging, inflight >>

\* ---- pure helpers ----

\* Math.round on offset / width: round half towards +infinity
MathRound(num, den) == (2 * num + den) \div (2 * den)

Count(s, x) == Cardinality({k \in DOMAIN s : s[k] = x})

Min(S) == CHOOSE x \in S : \A y \in S : x <= y

\* ---- timer ----

TimerIds(ts) == {t.id : t \in ts}

\* setInterval hands out an id that no live timer has
FreshId(ts) == Min({i \in 1 .. (Cardinality(ts) + 1) : i \notin TimerIds(ts)})

\* clearAutoScrollTimer that leaves the interval running
ClearAutoScrollTimerNoClear(ts, ref) == << ts, ref >>

\* clearAutoScrollTimer that nulls the ref without clearInterval
ClearAutoScrollTimerOnlyRef(ts, ref) == << ts, 0 >>

\* clearAutoScrollTimer: the pair <<timers, autoScrollTimer.current>> after
ClearAutoScrollTimer(ts, ref) ==
    IF ref # 0 THEN << {t \in ts : t.id # ref}, 0 >> ELSE << ts, ref >>

\* startAutoScroll without the autoScroll test
StartAutoScrollNoAutoCheck(ts, ref, auto, len, ivl) ==
    IF len <= 1
    THEN << ts, ref >>
    ELSE LET c == ClearAutoScrollTimer(ts, ref)
             id == FreshId(c[1])
         IN  << c[1] \cup {[id |-> id, len |-> len, ivl |-> ivl, rem |-> ivl]},
                id >>

\* startAutoScroll without the data.length test
StartAutoScrollNoLenCheck(ts, ref, auto, len, ivl) ==
    IF ~auto
    THEN << ts, ref >>
    ELSE LET c == ClearAutoScrollTimer(ts, ref)
             id == FreshId(c[1])
         IN  << c[1] \cup {[id |-> id, len |-> len, ivl |-> ivl, rem |-> ivl]},
                id >>

\* startAutoScroll without the clearAutoScrollTimer call
StartAutoScrollNoClear(ts, ref, auto, len, ivl) ==
    IF (~auto) \/ len <= 1
    THEN << ts, ref >>
    ELSE LET id == FreshId(ts)
         IN  << ts \cup {[id |-> id, len |-> len, ivl |-> ivl, rem |-> ivl]},
                id >>

\* startAutoScroll as created by the render with these props
StartAutoScroll(ts, ref, auto, len, ivl) ==
    IF (~auto) \/ len <= 1
    THEN << ts, ref >>
    ELSE LET c == ClearAutoScrollTimer(ts, ref)
             id == FreshId(c[1])
         IN  << c[1] \cup {[id |-> id, len |-> len, ivl |-> ivl, rem |-> ivl]},
                id >>

\* the auto-scroll effect without its cleanup function
AutoScrollEffectNoCleanup(ts, ref, auto, len, ivl) ==
    IF auto THEN StartAutoScroll(ts, ref, auto, len, ivl) ELSE << ts, ref >>

\* the auto-scroll effect re-running: cleanup of the old run, then the body
AutoScrollEffect(ts, ref, auto, len, ivl) ==
    LET c == ClearAutoScrollTimer(ts, ref)
    IN  IF auto THEN StartAutoScroll(c[1], c[2], auto, len, ivl) ELSE c

\* startAutoScroll's dependency list without autoScrollInterval
AutoEffectRerunsNoInterval(newAuto, newIvl, newLen, auto, ivl, len) ==
    newAuto # auto \/ newLen # len

\* The auto-scroll effect depends on autoScroll and on startAutoScroll,
\* which is re-created when autoScroll, autoScrollInterval or data.length
\* changes.
AutoEffectReruns(newAuto, newIvl, newLen, auto, ivl, len) ==
    newAuto # auto \/ newIvl # ivl \/ newLen # len

\* the state updater without the wraparound
TickIndexNoWrap(prevIndex, len) == prevIndex + 1

\* the state updater of the interval callback
TickIndex(prevIndex, len) == (prevIndex + 1) % len

\* scrollTo given the index instead of the offset
TickScrollXIndex(nextIndex) == nextIndex

\* the x the interval callback passes to scrollTo
TickScrollX(nextIndex) == nextIndex * SCREEN_WIDTH

\* the callbacks of the timers in due, by id: <<index, scrollTo offsets>>
RECURSIVE FireAll(_, _, _)
FireAll(due, idx, cmds) ==
    IF due = {} THEN << idx, cmds >>
    ELSE LET t == CHOOSE x \in due : \A y \in due : x.id <= y.id
             nextIndex == TickIndex(idx, t.len)
         IN  FireAll(due \ {t}, nextIndex,
                     Append(cmds, TickScrollX(nextIndex)))

\* ---- scroll end ----

\* handleScrollEnd: the index it computes and whether it takes the branch
ScrollEndIndex(contentOffset) == MathRound(contentOffset, SCREEN_WIDTH)

\* the branch condition without one of its three tests
ScrollEndUpdatesNoUpper(newIndex, cur, len) == newIndex # cur /\ newIndex >= 0

ScrollEndUpdatesNoLower(newIndex, cur, len) == newIndex # cur /\ newIndex < len

ScrollEndUpdatesSameIndex(newIndex, cur, len) == newIndex >= 0 /\ newIndex < len

ScrollEndUpdates(newIndex, cur, len) ==
    newIndex # cur /\ newIndex >= 0 /\ newIndex < len

\* the haptics test without the platform
HapticFiresAnyPlatform(haptic, web) == haptic

HapticFires(haptic, web) == haptic /\ ~web

\* currentIndex reset by a replacement of data
IndexAfterDataChangeReset(cur, newLen) == 0

\* currentIndex across a replacement of data: the state is kept
IndexAfterDataChange(cur, newLen) == cur

\* ---- preload effect ----

\* the neighbours taken with wraparound
PreloadCallsWrap(cur, len, auto) ==
    << (cur - 1 + len) % len, (cur + 1) % len >>
        \o (IF auto THEN << (cur + 2) % len >> ELSE << >>)

\* the indices handed to preloadImage, in call order
PreloadCalls(cur, len, auto) ==
    << cur - 1, cur + 1 >> \o (IF auto THEN << (cur + 2) % len >> ELSE << >>)

\* the preload effect without the enablePreloading test
PreloadEffectNoEnabledCheck(cur, len, auto, enabled) ==
    IF len <= 1 THEN << >>
    ELSE LET InData(i) == i >= 0 /\ i < len
         IN  SelectSeq(PreloadCalls(cur, len, auto), InData)

\* the Image.prefetch calls one run of the preload effect makes
PreloadEffect(cur, len, auto, enabled) ==
    IF (~enabled) \/ len <= 1 THEN << >>
    ELSE LET InData(i) == i >= 0 /\ i < len
         IN  SelectSeq(PreloadCalls(cur, len, auto), InData)

\* the catch block without its console.warn
WarnsOnSettleSilent(ok) == 0

\* console.warn calls when a prefetch promise settles: one in the catch block
WarnsOnSettle(ok) == IF ok THEN 0 ELSE 1

AddInflight(fl, calls) == [i \in DOMAIN fl |-> fl[i] + Count(calls, i)]

RECURSIVE SumTo(_, _)
SumTo(fl, n) == IF n < 0 THEN 0 ELSE fl[n] + SumTo(fl, n - 1)

FitsInflight(fl) == SumTo(fl, MaxItems - 1) <= MaxInflight

NoOutputs ==
    /\ scrollCmds' = << >>
    /\ imageChanges' = << >>
    /\ haptics' = 0
    /\ prefetched' = << >>
    /\ warns' = 0
    /\ fired' = 0
    /\ imagePresses' = << >>

\* ---- the other components ----

otherComponents == << modalVars, buttonVars, toastVars >>

Animations == {"slide", "fade", "scale"}

\* A shared value rests at its initial value (opacity 0, translateY
\* SCREEN_HEIGHT, scale 0.3) or at its open value (opacity 1, translateY 0,
\* scale 1); while an animation runs on it, value is where it started from.
Initial == "initial"
Open == "open"

\* a shared value assigned a plain number: any animation on it is cancelled
StillAt(v) == [value |-> v, running |-> FALSE, to |-> v, cb |-> FALSE]

\* no Modal on screen
NoModal ==
    /\ isVisible = FALSE /\ animation = "slide" /\ modalVisible = FALSE
    /\ opacity = StillAt(Initial) /\ translateY = StillAt(Initial)
    /\ scale = StillAt(Initial)
    /\ effectPending = FALSE /\ hideQueued = 0
    /\ part = "none" /\ hasContext = FALSE /\ outcome = "none"

\* no Button on screen
NoButton ==
    /\ disabled = FALSE /\ loading = FALSE /\ buttonHaptics = FALSE
    /\ hasOnPress = FALSE /\ onPressCalls = 0 /\ presses = 0

\* no Toast on screen
NoToast ==
    /\ visible = FALSE /\ duration = 0 /\ hasOnHide = FALSE
    /\ toastOpacity = [value |-> Initial, phase |-> "none", left |-> 0]
    /\ onHideCalls = 0 /\ seqCallback = "none" /\ held = 0 /\ seqHides = 0

\* ---- initial state: the first render committed and its effects run ----

Init ==
    /\ mounted = TRUE
    /\ dataLen \in Lengths
    /\ autoScroll \in BOOLEAN
    /\ autoScrollInterval \in Intervals
    /\ enableHaptics \in BOOLEAN
    /\ enablePreloading \in BOOLEAN
    /\ platformWeb \in BOOLEAN
    /\ currentIndex = 0
    /\ LET s == AutoScrollEffect({}, 0, autoScroll, dataLen, autoScrollInterval)
       IN  timers = s[1] /\ autoScrollTimer = s[2]
    /\ dragging = FALSE
    /\ prefetched = PreloadEffect(0, dataLen, autoScroll, enablePreloading)
    /\ inflight = AddInflight([i \in Indices |-> 0], prefetched)
    /\ FitsInflight(inflight)
    /\ scrollCmds = << >>
    /\ imageChanges = << >>
    /\ haptics = 0
    /\ warns = 0
    /\ ev = "mount"
    /\ arg = 0
    /\ fired = 0
    /\ reconfigured = FALSE
    /\ runStart = 0
    /\ runTicks = 0
    /\ imagePresses = << >>
    /\ NoModal /\ NoButton /\ NoToast

\* ---- actions ----

\* One unit of time passes; every interval timer that comes due runs its
\* callback, and the preload effect follows a changed currentIndex.  A
\* state update on an unmounted component is dropped by React.
Elapse ==
    /\ runTicks < MaxTicks
    /\ LET due == {t \in timers : t.rem = 1}
           r == IF mounted THEN FireAll(due, currentIndex, << >>)
                ELSE << currentIndex, << >> >>
           calls == IF r[1] # currentIndex
                    THEN PreloadEffect(r[1], dataLen, autoScroll, enablePreloading)
                    ELSE << >>
       IN  /\ timers' = {[t EXCEPT !.rem = IF t.rem = 1 THEN t.ivl ELSE t.rem - 1]
                           : t \in timers}
           /\ currentIndex' = r[1]
           /\ scrollCmds' = r[2]
           /\ fired' = Cardinality(due)
           /\ prefetched' = calls
           /\ inflight' = AddInflight(inflight, calls)
           /\ FitsInflight(inflight')
           /\ runTicks' = runTicks + Cardinality(due)
    /\ imageChanges' = << >>
    /\ haptics' = 0
    /\ warns' = 0
    /\ ev' = "elapse"
    /\ arg' = 0
    /\ imagePresses' = << >>
    /\ UNCHANGED otherComponents
    /\ UNCHANGED << mounted, dataLen, autoScroll, autoScrollInterval,
                    enableHaptics, enablePreloading, platformWeb,
                    autoScrollTimer, dragging, reconfigured, runStart >>

\* onMomentumScrollEnd with contentOffset.x = offset
ScrollEnd(offset) ==
    /\ mounted /\ dataLen > 0
    /\ LET newIndex == ScrollEndIndex(offset)
           upd == ScrollEndUpdates(newIndex, currentIndex, dataLen)
           calls == IF upd
                    THEN PreloadEffect(newIndex, dataLen, autoScroll, enablePreloading)
                    ELSE << >>
       IN  /\ currentIndex' = IF upd THEN newIndex ELSE currentIndex
           /\ imageChanges' = IF upd THEN << newIndex >> ELSE << >>
           /\ haptics' = IF upd /\ HapticFires(enableHaptics, platformWeb)
                         THEN 1 ELSE 0
           /\ prefetched' = calls
           /\ inflight' = AddInflight(inflight, calls)
           /\ FitsInflight(inflight')
    /\ scrollCmds' = << >>
    /\ warns' = 0
    /\ fired' = 0
    /\ ev' = "scrollEnd"
    /\ arg' = ScrollEndIndex(offset)
    /\ imagePresses' = << >>
    /\ UNCHANGED otherComponents
    /\ runStart' = currentIndex'
    /\ runTicks' = 0
    /\ UNCHANGED << mounted, dataLen, autoScroll, autoScrollInterval,
                    enableHaptics, enablePreloading, platformWeb,
                    autoScrollTimer, timers, dragging, reconfigured >>

\* onScrollBeginDrag = clearAutoScrollTimer
BeginDrag ==
    /\ mounted /\ dataLen > 0
    /\ LET c == ClearAutoScrollTimer(timers, autoScrollTimer)
       IN  timers' = c[1] /\ autoScrollTimer' = c[2]
    /\ dragging' = TRUE
    /\ reconfigured' = FALSE
    /\ NoOutputs
    /\ ev' = "beginDrag"
    /\ arg' = 0
    /\ UNCHANGED otherComponents
    /\ runStart' = currentIndex
    /\ runTicks' = 0
    /\ UNCHANGED << mounted, dataLen, autoScroll, autoScrollInterval,
                    enableHaptics, enablePreloading, platformWeb,
                    currentIndex, inflight >>

\* onScrollEndDrag = startAutoScroll
EndDrag ==
    /\ mounted /\ dataLen > 0
    /\ LET s == StartAutoScroll(timers, autoScrollTimer, autoScroll, dataLen,
                                autoScrollInterval)
       IN  timers' = s[1] /\ autoScrollTimer' = s[2]
    /\ dragging' = FALSE
    /\ reconfigured' = FALSE
    /\ NoOutputs
    /\ ev' = "endDrag"
    /\ arg' = 0
    /\ UNCHANGED otherComponents
    /\ runStart' = currentIndex
    /\ runTicks' = 0
    /\ UNCHANGED << mounted, dataLen, autoScroll, autoScrollInterval,
                    enableHaptics, enablePreloading, platformWeb,
                    currentIndex, inflight >>

\* The parent re-renders the Carousel with new props.  The auto-scroll
\* effect re-runs when autoScroll or startAutoScroll (autoScroll,
\* autoScrollInterval, data.length) changed; the preload effect re-runs when
\* data, enablePreloading or autoScroll changed.
Rerender(newLen, newAuto, newIvl, newPre, newHaptics, dataChanged, name) ==
    /\ mounted
    /\ LET idx == IF dataChanged THEN IndexAfterDataChange(currentIndex, newLen)
                  ELSE currentIndex
           rerunAuto == AutoEffectReruns(newAuto, newIvl, newLen, autoScroll,
                                         autoScrollInterval, dataLen)
           rerunPre == dataChanged \/ newPre # enablePreloading
                       \/ newAuto # autoScroll \/ idx # currentIndex
           s == IF rerunAuto
                THEN AutoScrollEffect(timers, autoScrollTimer, newAuto, newLen, newIvl)
                ELSE << timers, autoScrollTimer >>
           calls == IF rerunPre THEN PreloadEffect(idx, newLen, newAuto, newPre)
                    ELSE << >>
       IN  /\ currentIndex' = idx
           /\ timers' = s[1]
           /\ autoScrollTimer' = s[2]
           /\ prefetched' = calls
           /\ inflight' = AddInflight(inflight, calls)
           /\ FitsInflight(inflight')
    /\ dataLen' = newLen
    /\ autoScroll' = newAuto
    /\ autoScrollInterval' = newIvl
    /\ enablePreloading' = newPre
    /\ enableHaptics' = newHaptics
    /\ dragging' = (dragging /\ newLen > 0)
    /\ reconfigured' = dragging'
    /\ scrollCmds' = << >>
    /\ imageChanges' = << >>
    /\ haptics' = 0
    /\ warns' = 0
    /\ fired' = 0
    /\ ev' = name
    /\ arg' = 0
    /\ imagePresses' = << >>
    /\ UNCHANGED otherComponents
    /\ runStart' = currentIndex'
    /\ runTicks' = 0
    /\ UNCHANGED << mounted, platformWeb >>

SetData(newLen) ==
    Rerender(newLen, autoScroll, autoScrollInterval, enablePreloading,
             enableHaptics, TRUE, "setData")

SetAutoScroll ==
    Rerender(dataLen, ~autoScroll, autoScrollInterval, enablePreloading,
             enableHaptics, FALSE, "setAutoScroll")

SetInterval(newIvl) ==
    /\ newIvl # autoScrollInterval
    /\ Rerender(dataLen, autoScroll, newIvl, enablePreloading,
                enableHaptics, FALSE, "setInterval")

SetEnablePreloading ==
    Rerender(dataLen, autoScroll, autoScrollInterval, ~enablePreloading,
             enableHaptics, FALSE, "setEnablePreloading")

SetEnableHaptics ==
    Rerender(dataLen, autoScroll, autoScrollInterval, enablePreloading,
             ~enableHaptics, FALSE, "setEnableHaptics")

\* preloadImage that calls Image.prefetch again from its catch block
PrefetchDoneRetry(i, ok) ==
    /\ inflight[i] > 0
    /\ inflight' = IF ok THEN [inflight EXCEPT ![i] = @ - 1] ELSE inflight
    /\ warns' = WarnsOnSettle(ok)
    /\ scrollCmds' = << >>
    /\ imageChanges' = << >>
    /\ haptics' = 0
    /\ prefetched' = IF ok THEN << >> ELSE << i >>
    /\ fired' = 0
    /\ ev' = IF ok THEN "prefetchDone" ELSE "prefetchFailed"
    /\ arg' = 0
    /\ imagePresses' = << >>
    /\ UNCHANGED otherComponents
    /\ UNCHANGED << mounted, dataLen, autoScroll, autoScrollInterval,
                    enableHaptics, enablePreloading, platformWeb,
                    currentIndex, autoScrollTimer, timers, dragging,
                    reconfigured, runStart, runTicks >>

\* An Image.prefetch promise settles; a rejection is caught and warned about.
PrefetchDone(i, ok) ==
    /\ inflight[i] > 0
    /\ inflight' = [inflight EXCEPT ![i] = @ - 1]
    /\ warns' = WarnsOnSettle(ok)
    /\ scrollCmds' = << >>
    /\ imageChanges' = << >>
    /\ haptics' = 0
    /\ prefetched' = << >>
    /\ fired' = 0
    /\ ev' = IF ok THEN "prefetchDone" ELSE "prefetchFailed"
    /\ arg' = 0
    /\ imagePresses' = << >>
    /\ UNCHANGED otherComponents
    /\ UNCHANGED << mounted, dataLen, autoScroll, autoScrollInterval,
                    enableHaptics, enablePreloading, platformWeb,
                    currentIndex, autoScrollTimer, timers, dragging,
                    reconfigured, runStart, runTicks >>

\* The component unmounts: the auto-scroll effect's cleanup runs.
Unmount ==
    /\ mounted
    /\ mounted' = FALSE
    /\ LET c == ClearAutoScrollTimer(timers, autoScrollTimer)
       IN  timers' = c[1] /\ autoScrollTimer' = c[2]
    /\ dragging' = FALSE
    /\ reconfigured' = FALSE
    /\ NoOutputs
    /\ ev' = "unmount"
    /\ arg' = 0
    /\ UNCHANGED otherComponents
    /\ runStart' = currentIndex
    /\ runTicks' = 0
    /\ UNCHANGED << dataLen, autoScroll, autoScrollInterval, enableHaptics,
                    enablePreloading, platformWeb, currentIndex, inflight >>

\* handleImagePress that also selects the pressed image
ImagePressSelects(index) ==
    /\ mounted /\ index < dataLen
    /\ currentIndex' = index
    /\ imagePresses' = << index >>
    /\ scrollCmds' = << >>
    /\ imageChanges' = << >>
    /\ haptics' = 0
    /\ prefetched' = << >>
    /\ warns' = 0
    /\ fired' = 0
    /\ ev' = "imagePress"
    /\ arg' = index
    /\ runStart' = currentIndex'
    /\ runTicks' = 0
    /\ UNCHANGED otherComponents
    /\ UNCHANGED << mounted, dataLen, autoScroll, autoScrollInterval,
                    enableHaptics, enablePreloading, platformWeb,
                    autoScrollTimer, timers, dragging, inflight,
                    reconfigured >>

\* The TouchableOpacity of a rendered image is pressed: handleImagePress
\* passes its index (and data[index]) to onImagePress.
ImagePress(index) ==
    /\ mounted /\ index < dataLen
    /\ imagePresses' = << index >>
    /\ scrollCmds' = << >>
    /\ imageChanges' = << >>
    /\ haptics' = 0
    /\ prefetched' = << >>
    /\ warns' = 0
    /\ fired' = 0
    /\ ev' = "imagePress"
    /\ arg' = index
    /\ runStart' = currentIndex
    /\ runTicks' = 0
    /\ UNCHANGED otherComponents
    /\ UNCHANGED << mounted, dataLen, autoScroll, autoScrollInterval,
                    enableHaptics, enablePreloading, platformWeb,
                    currentIndex, autoScrollTimer, timers, dragging,
                    inflight, reconfigured >>

Next ==
    \/ Elapse
    \/ \E offset \in Offsets : ScrollEnd(offset)
    \/ BeginDrag
    \/ EndDrag
    \/ \E newLen \in Lengths : SetData(newLen)
    \/ SetAutoScroll
    \/ \E newIvl \in Intervals : SetInterval(newIvl)
    \/ SetEnablePreloading
    \/ SetEnableHaptics
    \/ \E i \in Indices, ok \in BOOLEAN : PrefetchDone(i, ok)
    \/ Unmount
    \/ \E index \in Indices : ImagePress(index)

Spec == Init /\ [][Next]_vars

\* The component with enablePreloading = false throughout: index, timer and
\* drag behaviour with every interval.
InitScroll == Init /\ ~enablePreloading

NextScroll ==
    \/ Elapse
    \/ \E offset \in Offsets : ScrollEnd(offset)
    \/ BeginDrag
    \/ EndDrag
    \/ \E newLen \in Lengths : SetData(newLen)
    \/ SetAutoScroll
    \/ \E newIvl \in Intervals : SetInterval(newIvl)
    \/ SetEnableHaptics
    \/ Unmount

SpecScroll == InitScroll /\ [][NextScroll]_vars

\* The component on a native platform with haptics enabled and
\* autoScrollInterval fixed at one time unit: index, timer and drag
\* behaviour together with the preload effect.
InitPreload ==
    Init /\ autoScrollInterval = 1 /\ enableHaptics /\ ~platformWeb

NextPreload ==
    \/ Elapse
    \/ \E offset \in Offsets : ScrollEnd(offset)
    \/ BeginDrag
    \/ EndDrag
    \/ \E newLen \in Lengths : SetData(newLen)
    \/ SetAutoScroll
    \/ SetEnablePreloading
    \/ \E i \in Indices, ok \in BOOLEAN : PrefetchDone(i, ok)
    \/ Unmount

SpecPreload == InitPreload /\ [][NextPreload]_vars

\* The component of InitPreload with its props left alone: ticks, scroll
\* ends, drags, settling prefetches and presses on the images.
NextPress ==
    \/ Elapse
    \/ \E offset \in Offsets : ScrollEnd(offset)
    \/ BeginDrag
    \/ EndDrag
    \/ \E i \in Indices, ok \in BOOLEAN : PrefetchDone(i, ok)
    \/ \E index \in Indices : ImagePress(index)

SpecPress == InitPreload /\ [][NextPress]_vars

\* ---- Modal ----

MaxQueued == 2       \* most runOnJS(hideModal) calls waiting at once

\* no Carousel on screen
NoCarousel ==
    /\ mounted = FALSE /\ dataLen = 0 /\ autoScroll = FALSE
    /\ autoScrollInterval = 1 /\ enableHaptics = FALSE
    /\ enablePreloading = FALSE /\ currentIndex = 0
    /\ autoScrollTimer = 0 /\ timers = {} /\ dragging = FALSE
    /\ inflight = [i \in Indices |-> 0]
    /\ scrollCmds = << >> /\ imageChanges = << >> /\ prefetched = << >>
    /\ warns = 0 /\ arg = 0 /\ fired = 0 /\ reconfigured = FALSE
    /\ runStart = 0 /\ runTicks = 0 /\ imagePresses = << >>

\* withTiming / withSpring assigned to a shared value: the animation that
\* was running on it is cancelled (its callback gets finished = false) and
\* the new one starts from the current value
WithTiming(sv, target, callback) ==
    [value |-> sv.value, running |-> TRUE, to |-> target, cb |-> callback]

\* (finished) => { if (finished) runOnJS(hideModal)() }: hideModal is queued
ExitCallback(finished) == finished

\* hideModal calls queued by the callback of an animation that an
\* assignment to its shared value cancels
Cancelled(old, new) ==
    IF old.running /\ old.cb /\ new # old /\ ExitCallback(FALSE) THEN 1 ELSE 0

\* hideModal that leaves the animated values where they are
HideModalValueKeep(sv) == sv

\* hideModal's reset of one animated value
HideModalValue(sv) == StillAt(Initial)

\* The body of the visibility effect: modalVisible and the three shared
\* values after it.  A callback flag marks the animation whose completion
\* calls hideModal.
VisibilityEffect(isV, mV, anim, op, ty, sc) ==
    IF isV
    THEN [modalVisible |-> TRUE,
          opacity |-> WithTiming(op, Open, FALSE),
          translateY |-> IF anim = "slide" THEN WithTiming(ty, Open, FALSE)
                         ELSE ty,
          scale |-> IF anim = "scale" THEN WithTiming(sc, Open, FALSE) ELSE sc]
    ELSE IF mV
    THEN [modalVisible |-> mV,
          opacity |-> WithTiming(op, Initial, anim = "fade"),
          translateY |-> IF anim = "slide" THEN WithTiming(ty, Initial, TRUE)
                         ELSE ty,
          scale |-> IF anim = "scale" THEN WithTiming(sc, Initial, TRUE)
                    ELSE sc]
    ELSE [modalVisible |-> mV, opacity |-> op, translateY |-> ty, scale |-> sc]

\* useModalContext: whether it throws
UseModalContext(context) == ~context

\* ModalHeader reads the context first
ModalHeader(context) ==
    IF UseModalContext(context) THEN "error" ELSE "rendered"

\* ModalFooter never reads the context
ModalFooter(context) == "rendered"

\* the first render of a Modal: nothing shown, the effect still to run
InitModal ==
    /\ NoCarousel /\ NoButton /\ NoToast
    /\ platformWeb = FALSE /\ haptics = 0
    /\ isVisible \in BOOLEAN
    /\ animation \in Animations
    /\ modalVisible = FALSE
    /\ opacity = StillAt(Initial)
    /\ translateY = StillAt(Initial)
    /\ scale = StillAt(Initial)
    /\ effectPending = TRUE
    /\ hideQueued = 0
    /\ part = "none" /\ hasContext = FALSE /\ outcome = "none"
    /\ ev = "mount"

modalFrame == << carouselVars, buttonVars, toastVars, haptics, platformWeb >>

\* The parent re-renders the Modal with another isVisible or animation.
\* Effects of the previous render are flushed before the next one.
ModalRerender(newVisible, newAnimation) ==
    /\ ~effectPending
    /\ newVisible # isVisible \/ newAnimation # animation
    /\ isVisible' = newVisible
    /\ animation' = newAnimation
    /\ effectPending' = TRUE
    /\ ev' = IF newVisible = isVisible THEN "setAnimation"
             ELSE IF newVisible THEN "open" ELSE "close"
    /\ UNCHANGED << modalVisible, opacity, translateY, scale, hideQueued,
                    part, hasContext, outcome, modalFrame >>

\* The visibility effect runs; a changed modalVisible re-renders, and the
\* effect (modalVisible is a dependency) is due again.
RunEffect ==
    /\ effectPending
    /\ LET r == VisibilityEffect(isVisible, modalVisible, animation,
                                 opacity, translateY, scale)
       IN  /\ modalVisible' = r.modalVisible
           /\ opacity' = r.opacity
           /\ translateY' = r.translateY
           /\ scale' = r.scale
           /\ effectPending' = (r.modalVisible # modalVisible)
           /\ hideQueued' = hideQueued + Cancelled(opacity, r.opacity)
                               + Cancelled(translateY, r.translateY)
                               + Cancelled(scale, r.scale)
    /\ ev' = "effect"
    /\ UNCHANGED << isVisible, animation, part, hasContext, outcome,
                    modalFrame >>

SharedValues == {"opacity", "translateY", "scale"}

SharedValue(name) ==
    IF name = "opacity" THEN opacity
    ELSE IF name = "translateY" THEN translateY ELSE scale

SetSharedValue(name, sv) ==
    /\ opacity' = IF name = "opacity" THEN sv ELSE opacity
    /\ translateY' = IF name = "translateY" THEN sv ELSE translateY
    /\ scale' = IF name = "scale" THEN sv ELSE scale

\* A running animation reaches its target: its callback runs with
\* finished = true and hands hideModal to the JS thread.
AnimationEnd(name) ==
    /\ SharedValue(name).running
    /\ SharedValue(name).cb => hideQueued < MaxQueued
    /\ SetSharedValue(name, StillAt(SharedValue(name).to))
    /\ hideQueued' = hideQueued
           + (IF SharedValue(name).cb /\ ExitCallback(TRUE) THEN 1 ELSE 0)
    /\ ev' = "animationEnd"
    /\ UNCHANGED << isVisible, animation, modalVisible, effectPending,
                    part, hasContext, outcome, modalFrame >>

\* The JS thread runs a queued hideModal: setModalVisible(false) and the
\* three values reset; a changed modalVisible makes the effect due.
HideModal ==
    /\ hideQueued > 0
    /\ ~effectPending
    /\ modalVisible' = FALSE
    /\ opacity' = HideModalValue(opacity)
    /\ translateY' = HideModalValue(translateY)
    /\ scale' = HideModalValue(scale)
    /\ hideQueued' = hideQueued - 1 + Cancelled(opacity, opacity')
                        + Cancelled(translateY, translateY')
                        + Cancelled(scale, scale')
    /\ effectPending' = modalVisible
    /\ ev' = "hideModal"
    /\ UNCHANGED << isVisible, animation, part, hasContext, outcome,
                    modalFrame >>

\* Modal.Header or Modal.Footer is rendered, inside a Modal (the Provider
\* supplies a context object) or outside one (the context is undefined).
RenderSubPart(p, context) ==
    /\ part' = p
    /\ hasContext' = context
    /\ outcome' = IF p = "Header" THEN ModalHeader(context)
                  ELSE ModalFooter(context)
    /\ ev' = "renderPart"
    /\ UNCHANGED << isVisible, animation, modalVisible, opacity, translateY,
                    scale, effectPending, hideQueued, modalFrame >>

NextModal ==
    \/ \E v \in BOOLEAN, a \in Animations : ModalRerender(v, a)
    \/ RunEffect
    \/ \E name \in SharedValues : AnimationEnd(name)
    \/ HideModal

SpecModal == InitModal /\ [][NextModal]_vars

\* The effect runs after every commit and a running animation reaches its
\* target.  The JS thread serves its queue in order, so a call handed to it
\* is run however many renders come in between.
SpecModalLive ==
    /\ SpecModal
    /\ WF_vars(RunEffect)
    /\ \A name \in SharedValues : WF_vars(AnimationEnd(name))
    /\ SF_vars(HideModal)

\* A Modal that keeps the fade animation, and sub-parts rendered inside
\* and outside it.
InitSubParts == InitModal /\ animation = "fade"

NextSubParts ==
    \/ \E v \in BOOLEAN : ModalRerender(v, animation)
    \/ RunEffect
    \/ \E name \in SharedValues : AnimationEnd(name)
    \/ HideModal
    \/ \E p \in {"Header", "Footer"}, c \in BOOLEAN : RenderSubPart(p, c)

SpecSubParts == InitSubParts /\ [][NextSubParts]_vars

\* ---- Button ----

MaxPresses == 2      \* most touches counted

\* isDisabled that forgets loading
IsDisabledOnlyDisabled(dis, load) == dis

\* const isDisabled = disabled || loading
IsDisabled(dis, load) == dis \/ load

\* Pressable with disabled={isDisabled} calls its onPress only when enabled
PressableDelivers(isDisabled) == ~isDisabled

\* handlePress: the Haptics.impactAsync and onPress calls it makes
HandlePress(isDisabled, enableH, web, hasHandler) ==
    [haptics |-> IF (~isDisabled) /\ enableH /\ ~web THEN 1 ELSE 0,
     onPress |-> IF (~isDisabled) /\ hasHandler THEN 1 ELSE 0]

\* the first render of a Button
InitButton ==
    /\ NoCarousel /\ NoModal /\ NoToast
    /\ platformWeb \in BOOLEAN
    /\ disabled \in BOOLEAN
    /\ loading \in BOOLEAN
    /\ buttonHaptics \in BOOLEAN
    /\ hasOnPress \in BOOLEAN
    /\ onPressCalls = 0
    /\ haptics = 0
    /\ presses = 0
    /\ ev = "mount"

buttonFrame == << carouselVars, modalVars, toastVars, platformWeb >>

\* A touch is released on the button.
ButtonPress ==
    /\ presses < MaxPresses
    /\ presses' = presses + 1
    /\ LET isDisabled == IsDisabled(disabled, loading)
           r == HandlePress(isDisabled, buttonHaptics, platformWeb, hasOnPress)
       IN  IF PressableDelivers(isDisabled)
           THEN onPressCalls' = r.onPress /\ haptics' = r.haptics
           ELSE onPressCalls' = 0 /\ haptics' = 0
    /\ ev' = "press"
    /\ UNCHANGED << disabled, loading, buttonHaptics, hasOnPress, buttonFrame >>

\* The parent re-renders the Button with other props.
ButtonRerender(newDisabled, newLoading, newHaptics, newHandler) ==
    /\ << newDisabled, newLoading, newHaptics, newHandler >>
           # << disabled, loading, buttonHaptics, hasOnPress >>
    /\ disabled' = newDisabled
    /\ loading' = newLoading
    /\ buttonHaptics' = newHaptics
    /\ hasOnPress' = newHandler
    /\ onPressCalls' = 0
    /\ haptics' = 0
    /\ ev' = "setButtonProps"
    /\ UNCHANGED << presses, buttonFrame >>

NextButton ==
    \/ ButtonPress
    \/ \E d \in BOOLEAN, l \in BOOLEAN, h \in BOOLEAN, o \in BOOLEAN :
           ButtonRerender(d, l, h, o)

SpecButton == InitButton /\ [][NextButton]_vars

\* ---- Toast ----

MaxDuration == 2     \* largest duration, in time units

Durations == 0 .. MaxDuration

\* a withTiming of 300 ms takes one time unit
TimingUnits == 1

SeqPhases == {"enter", "delay", "exit"}

\* the sequence callback without the finished test
SequenceCallbackIgnoresFinished(finished, handler) == IF handler THEN 1 ELSE 0

\* (finished) => { if (finished && onHide) runOnJS(onHide)() }: onHide calls
SequenceCallback(finished, handler) == IF finished /\ handler THEN 1 ELSE 0

\* the sequence without its withDelay
HoldTimeNone(dur) == 0

\* withDelay(duration, ...): the time between enter and exit
HoldTime(dur) == dur

\* what follows the enter animation of the sequence
AfterEnter(dur) ==
    IF HoldTime(dur) = 0
    THEN [phase |-> "exit", left |-> TimingUnits]
    ELSE [phase |-> "delay", left |-> HoldTime(dur)]

\* The effect assigns opacity the show sequence (visible) or a withTiming
\* to 0 (not visible); translateY and scale get the same shape of
\* animation without any callback.
ToastEffect(vis, op) ==
    [value |-> op.value, phase |-> IF vis THEN "enter" ELSE "hide",
     left |-> TimingUnits]

\* the first render of a Toast, its effect run
InitToast ==
    /\ NoCarousel /\ NoModal /\ NoButton
    /\ platformWeb = FALSE /\ haptics = 0
    /\ visible \in BOOLEAN
    /\ duration \in Durations
    /\ hasOnHide \in BOOLEAN
    /\ toastOpacity =
           ToastEffect(visible, [value |-> Initial, phase |-> "none", left |-> 0])
    /\ onHideCalls = 0
    /\ seqCallback = "none"
    /\ held = 0
    /\ seqHides = 0
    /\ ev = "mount"

toastFrame == << carouselVars, modalVars, buttonVars, haptics, platformWeb >>

\* One unit of time passes on the UI thread: the animation on opacity
\* advances; the end of the sequence runs its callback with finished = true.
ToastElapse ==
    /\ toastOpacity.phase # "none"
    /\ LET op == toastOpacity
           ends == op.left = 1
           done == ends /\ op.phase = "exit"
       IN  /\ toastOpacity' =
                  IF ~ends THEN [op EXCEPT !.left = @ - 1]
                  ELSE IF op.phase = "enter"
                  THEN [value |-> Open, phase |-> AfterEnter(duration).phase,
                        left |-> AfterEnter(duration).left]
                  ELSE IF op.phase = "delay"
                  THEN [op EXCEPT !.phase = "exit", !.left = TimingUnits]
                  ELSE [value |-> Initial, phase |-> "none", left |-> 0]
           /\ held' = IF op.phase = "delay" THEN held + 1 ELSE held
           /\ seqCallback' = IF done THEN "finished" ELSE "none"
           /\ onHideCalls' = IF done THEN SequenceCallback(TRUE, hasOnHide)
                             ELSE 0
           /\ seqHides' = seqHides + onHideCalls'
    /\ ev' = "toastElapse"
    /\ UNCHANGED << visible, duration, hasOnHide, toastFrame >>

\* The toast is tapped while shown: TouchableOpacity onPress={onHide}.
ToastTap ==
    /\ visible
    /\ onHideCalls' = IF hasOnHide THEN 1 ELSE 0
    /\ seqCallback' = "none"
    /\ ev' = "tap"
    /\ UNCHANGED << visible, duration, hasOnHide, toastOpacity, held,
                    seqHides, toastFrame >>

\* The parent re-renders the Toast with a dependency of the effect changed
\* (visible, duration, onHide or its identity).  The effect assigns new
\* animations; a sequence still running is cancelled and its callback runs
\* with finished = false.
ToastRerender(newVisible, newDuration, newHandler, handlerChanged) ==
    /\ handlerChanged => (newHandler /\ hasOnHide)
    /\ \/ newVisible # visible
       \/ newDuration # duration
       \/ newHandler # hasOnHide
       \/ handlerChanged
    /\ visible' = newVisible
    /\ duration' = newDuration
    /\ hasOnHide' = newHandler
    /\ toastOpacity' = ToastEffect(newVisible, toastOpacity)
    /\ IF toastOpacity.phase \in SeqPhases
       THEN /\ seqCallback' = "cancelled"
            /\ onHideCalls' = SequenceCallback(FALSE, hasOnHide)
       ELSE /\ seqCallback' = "none"
            /\ onHideCalls' = 0
    /\ held' = 0
    /\ seqHides' = 0
    /\ ev' = IF newVisible = visible THEN "setToastProps"
             ELSE IF newVisible THEN "show" ELSE "hide"
    /\ UNCHANGED toastFrame

NextToast ==
    \/ ToastElapse
    \/ ToastTap
    \/ \E v \in BOOLEAN, d \in Durations, h \in BOOLEAN, c \in BOOLEAN :
           ToastRerender(v, d, h, c)

SpecToast == InitToast /\ [][NextToast]_vars

\* The UI thread keeps running the animations.
SpecToastLive == SpecToast /\ WF_vars(ToastElapse)

\* ---- properties ----

InData(i, len) == i >= 0 /\ i < len

Clamp(i, lo, hi) == IF i < lo THEN lo ELSE IF i > hi THEN hi ELSE i

IndexInRange == dataLen > 0 => InData(currentIndex, dataLen)

C2_IndexInRange ==
    /\ IndexInRange
    /\ [][(ev' # "setData" /\ IndexInRange) => IndexInRange']_vars

C2_Witness ==
    /\ ev = "scrollEnd" /\ arg >= dataLen
    /\ dataLen > 1 /\ currentIndex = dataLen - 1
    /\ autoScroll /\ timers # {}

\* C3 as claimed: a replacement of the dataset leaves currentIndex at 0 and
\* inside the new dataset.
C3_DataChangeResetsIndex ==
    [][ev' = "setData" =>
         currentIndex' = 0 /\ (dataLen' > 0 => InData(currentIndex', dataLen'))]_vars

\* C4 as claimed: while a drag is in progress no interval timer is armed and
\* no auto-scroll scrollTo is issued.
C4_NoTimerWhileDragging ==
    dragging => (timers = {} /\ autoScrollTimer = 0 /\ scrollCmds = << >>)

\* C5: during a drag in which no prop has changed, a step of elapsed time
\* fires no tick, leaves currentIndex alone and issues no scrollTo.
C5_DragStopsTicks ==
    [][(dragging /\ ~reconfigured /\ ev' = "elapse") =>
         (fired' = 0 /\ currentIndex' = currentIndex /\ scrollCmds' = << >>)]_vars

C5_Witness ==
    /\ dragging /\ ~reconfigured
    /\ ev = "elapse"
    /\ autoScroll /\ dataLen > 1

\* C6: after N ticks of a run that began at index i (no other event in
\* between), currentIndex = (i + N) mod data.length.
C6_RunOfTicks ==
    runTicks >= 1 =>
        (dataLen > 1 /\ currentIndex = (runStart + runTicks) % dataLen)

C6_Witness ==
    /\ runTicks >= 2
    /\ runStart > 0
    /\ currentIndex < runStart

\* C7: a tick issues exactly one scrollTo, to x = ((currentIndex + 1) mod
\* data.length) * SCREEN_WIDTH; from the last index that is x = 0.
C7_TickScrollTarget ==
    [][(ev' = "elapse" /\ fired' = 1) =>
         scrollCmds' = << ((currentIndex + 1) % dataLen) * SCREEN_WIDTH >>]_vars

C7_Witness ==
    /\ ev = "elapse" /\ fired = 1
    /\ runTicks = 1 /\ runStart = dataLen - 1
    /\ scrollCmds = << 0 >>

\* C8 as claimed: every step that moves currentIndex to another index of the
\* dataset calls onImageChange with that index.
C8_EveryIndexChangeNotifies ==
    [][(currentIndex' # currentIndex /\ InData(currentIndex', dataLen')) =>
         imageChanges' = << currentIndex' >>]_vars

\* C9: a scroll end that computes the current index changes nothing and
\* calls neither onImageChange nor the haptics; one that changes
\* currentIndex calls onImageChange once, with the new index.
C9_ScrollEndIdempotent ==
    [][ev' = "scrollEnd" =>
         IF arg' = currentIndex
         THEN /\ progState' = progState
              /\ imageChanges' = << >> /\ haptics' = 0
              /\ prefetched' = << >> /\ scrollCmds' = << >>
         ELSE currentIndex' # currentIndex =>
                 imageChanges' = << currentIndex' >>]_vars

C9_Witness ==
    /\ ev = "scrollEnd" /\ arg = currentIndex
    /\ imageChanges = << >>
    /\ currentIndex > 0
    /\ enableHaptics /\ ~platformWeb
    /\ enablePreloading /\ inflight[0] > 0
    /\ autoScroll /\ timers # {}

C11_TimerOnlyWhenAutoScroll ==
    (timers # {} \/ autoScrollTimer # 0 \/ fired > 0) =>
        (autoScroll /\ dataLen > 1)

C11_Witness ==
    /\ ev = "setData" /\ dataLen = 1
    /\ autoScroll /\ timers = {}
    /\ currentIndex > 0

\* C12: an end-drag leaves exactly one freshly armed timer when autoScroll
\* is enabled and the dataset has more than one item, and no timer otherwise.
C12_EndDragRearms ==
    [][ev' = "endDrag" =>
         IF autoScroll /\ dataLen > 1
         THEN /\ autoScrollTimer' # 0
              /\ timers' = {[id |-> autoScrollTimer', len |-> dataLen,
                             ivl |-> autoScrollInterval,
                             rem |-> autoScrollInterval]}
         ELSE timers' = {} /\ autoScrollTimer' = 0]_vars

C12_Witness ==
    /\ ev = "endDrag"
    /\ ~autoScroll /\ dataLen > 1
    /\ timers = {} /\ autoScrollTimer = 0

\* C13: a change of autoScrollInterval while a timer runs leaves exactly one
\* timer, with the new period and a full new period still to wait.
C13_IntervalChangeRestarts ==
    [][(ev' = "setInterval" /\ timers # {}) =>
         /\ autoScrollTimer' # 0
         /\ timers' = {[id |-> autoScrollTimer', len |-> dataLen,
                        ivl |-> autoScrollInterval',
                        rem |-> autoScrollInterval']}]_vars

C13_Witness ==
    /\ ev = "setInterval" /\ autoScrollInterval > 1
    /\ ~dragging
    /\ \E t \in timers : t.ivl = autoScrollInterval /\ t.rem = autoScrollInterval

\* C14: once unmounted no timer is left, time that elapses fires no tick
\* and no scrollTo is issued.
C14_UnmountStopsTimer ==
    ~mounted =>
        (timers = {} /\ autoScrollTimer = 0 /\ fired = 0 /\ scrollCmds = << >>)

C14_Witness ==
    /\ ~mounted /\ ev = "elapse"
    /\ autoScroll /\ dataLen > 1

\* ---- preload effect properties ----

SeqSet(q) == {q[k] : k \in DOMAIN q}

\* the last step ran the preload effect (mount, or a change of
\* currentIndex, data, enablePreloading or autoScroll)
PreloadEffectRan ==
    /\ mounted
    /\ \/ ev \in {"mount", "setData", "setAutoScroll", "setEnablePreloading"}
       \/ ev = "scrollEnd" /\ imageChanges # << >>
       \/ ev = "elapse" /\ fired > 0

Neighbours(k, n) == {k - 1, k + 1} \cap (0 .. (n - 1))

\* C15: with preloading on and autoScroll off, a run of the preload effect
\* at index k of n items requests exactly {k-1, k+1} within [0, n-1], each
\* once and without wraparound.
C15_PreloadNeighbours ==
    (PreloadEffectRan /\ enablePreloading /\ ~autoScroll
       /\ InData(currentIndex, dataLen)) =>
        /\ SeqSet(prefetched) = Neighbours(currentIndex, dataLen)
        /\ Len(prefetched) = Cardinality(Neighbours(currentIndex, dataLen))

C15_Witness ==
    /\ ev = "scrollEnd" /\ imageChanges # << >>
    /\ enablePreloading /\ ~autoScroll
    /\ dataLen >= 3 /\ currentIndex = dataLen - 1
    /\ prefetched = << dataLen - 2 >>

\* C16 as claimed: with autoScroll on, a run of the preload effect requests
\* the in-range neighbours and, only when n > 2, (k + 2) mod n; the active
\* index itself is never requested.
C16_PreloadAfterNext ==
    (PreloadEffectRan /\ enablePreloading /\ autoScroll
       /\ InData(currentIndex, dataLen)) =>
        /\ SeqSet(prefetched) =
               Neighbours(currentIndex, dataLen)
                 \cup (IF dataLen > 2 THEN {(currentIndex + 2) % dataLen}
                       ELSE {})
        /\ currentIndex \notin SeqSet(prefetched)

\* C17 as claimed: no index has two prefetch requests in flight.
C17_NoDuplicatePrefetch ==
    \A i \in Indices : inflight[i] <= 1

\* everything the component owns except the outstanding prefetch promises
coordState == << mounted, dataLen, autoScroll, autoScrollInterval,
                 enableHaptics, enablePreloading, platformWeb, currentIndex,
                 autoScrollTimer, timers, dragging >>

\* exactly one promise, for one index, left the outstanding ones
OneSettled ==
    \E i \in Indices :
        /\ inflight[i] > 0
        /\ inflight' = [inflight EXCEPT ![i] = @ - 1]

\* C18: a rejected prefetch is caught: one console.warn, no new
\* Image.prefetch call, the promise is no longer outstanding, and
\* currentIndex, the timer and the rest of the component state are unchanged.
C18_FailedPrefetchSwallowed ==
    [][ev' = "prefetchFailed" =>
         /\ warns' = 1
         /\ prefetched' = << >>
         /\ OneSettled
         /\ coordState' = coordState]_vars

C18_Witness ==
    /\ ev = "prefetchFailed" /\ warns = 1
    /\ mounted /\ timers # {}
    /\ currentIndex > 0

\* C19: a prefetch that settles, fulfilled or rejected, in any order and
\* also after the unmount or a replacement of the dataset, changes no
\* component state and issues no scrollTo, callback, haptic or prefetch.
C19_LateSettleChangesNothing ==
    [][ev' \in {"prefetchDone", "prefetchFailed"} =>
         /\ coordState' = coordState
         /\ OneSettled
         /\ scrollCmds' = << >> /\ imageChanges' = << >>
         /\ haptics' = 0 /\ prefetched' = << >> /\ fired' = 0]_vars

C19_Witness ==
    /\ ~mounted
    /\ ev \in {"prefetchDone", "prefetchFailed"}
    /\ \E i \in Indices : inflight[i] > 0

\* C20: with an empty dataset no timer is armed, no drag is in progress, no
\* step issues a prefetch, a scrollTo, a callback or a haptic, and
\* handleScrollEnd would take no branch for any offset.
C20_EmptyDatasetInert ==
    dataLen = 0 =>
        /\ timers = {} /\ autoScrollTimer = 0 /\ fired = 0
        /\ ~dragging
        /\ prefetched = << >> /\ scrollCmds = << >>
        /\ imageChanges = << >> /\ haptics = 0
        /\ \A o \in Offsets :
               ~ScrollEndUpdates(ScrollEndIndex(o), currentIndex, dataLen)

C20_Witness ==
    /\ dataLen = 0 /\ mounted
    /\ autoScroll /\ enablePreloading
    /\ ev = "elapse"
    /\ currentIndex > 0

\* C22: Haptics.impactAsync is called only by a scroll end that changes
\* currentIndex, with enableHaptics true and off the web, and then once; a
\* scroll end that changes nothing calls no haptic.
C22_HapticsOnlyOnIndexChange ==
    [][haptics' > 0 =>
         /\ ev' = "scrollEnd"
         /\ enableHaptics /\ ~platformWeb
         /\ currentIndex' # currentIndex
         /\ haptics' = 1]_vars

C22_Witness ==
    /\ ev = "scrollEnd" /\ haptics = 1
    /\ imageChanges = << currentIndex >>
    /\ autoScroll /\ timers # {}

\* C23: a press on a rendered image passes its index to onImagePress once
\* and changes nothing else: currentIndex, the timer, the outstanding
\* prefetches and every prop stay as they were, and no other output is made.
C23_ImagePressOnlyForwards ==
    [][ev' = "imagePress" =>
         /\ imagePresses' = << arg' >> /\ InData(arg', dataLen)
         /\ progState' = progState
         /\ scrollCmds' = << >> /\ imageChanges' = << >>
         /\ haptics' = 0 /\ prefetched' = << >> /\ fired' = 0]_vars

C23_Witness ==
    /\ ev = "imagePress" /\ imagePresses = << arg >>
    /\ arg # currentIndex
    /\ timers # {}
    /\ \E i \in Indices : inflight[i] > 0

\* C28: at most one interval timer is alive, and it is the one
\* autoScrollTimer.current refers to.
C28_AtMostOneTimer ==
    /\ Cardinality(timers) <= 1
    /\ \A t \in timers : t.id = autoScrollTimer
    /\ autoScrollTimer # 0 => timers # {}

C28_Witness ==
    /\ ev = "endDrag"
    /\ reconfigured = FALSE /\ autoScrollInterval > 1
    /\ Cardinality(timers) = 1
    /\ \A t \in timers : t.rem = autoScrollInterval

\* C30: with enablePreloading false, or with at most one item, no step
\* issues an Image.prefetch.
C30_NoPrefetchWhenDisabled ==
    ((~enablePreloading) \/ dataLen <= 1) => prefetched = << >>

C30_Witness ==
    /\ ~enablePreloading /\ dataLen > 1
    /\ ev = "elapse" /\ fired > 0
    /\ currentIndex # runStart
    /\ prefetched = << >>

\* ---- Modal properties ----

\* C21 as claimed: a sub-part rendered outside a Modal container, Header or
\* Footer, fails with an error.
C21_SubPartOutsideFails ==
    (ev = "renderPart" /\ ~hasContext) => outcome = "error"

AllReset ==
    /\ opacity = StillAt(Initial)
    /\ translateY = StillAt(Initial)
    /\ scale = StillAt(Initial)

\* C24: after isVisible goes false the modal stays mounted until hideModal
\* runs; hideModal is requested only by an exit animation that ran to its
\* end, and it leaves the three animated values reset; with any of the
\* three animations the modal is eventually hidden unless isVisible turns
\* true again.
C24_ModalLifecycle ==
    /\ [][(modalVisible /\ ~modalVisible') =>
            (ev' = "hideModal" /\ AllReset')]_vars
    /\ [][hideQueued' > hideQueued =>
            /\ ev' = "animationEnd"
            /\ \E name \in SharedValues :
                   /\ SharedValue(name).running
                   /\ SharedValue(name).to = Initial]_vars
    /\ \A a \in Animations :
           (~isVisible /\ modalVisible /\ animation = a)
               ~> (~modalVisible \/ isVisible)

C24_Witness ==
    /\ ev = "hideModal"
    /\ ~isVisible /\ ~modalVisible
    /\ animation = "scale"
    /\ AllReset

\* C27 as claimed: hideModal never runs while isVisible is true, so an exit
\* animation of an earlier close never hides a modal that was asked to show.
C27_StaleExitNeverHides ==
    ~(ev = "hideModal" /\ isVisible /\ ~modalVisible)

\* ---- Button properties ----

\* C25: a press while disabled or loading calls neither onPress nor the
\* haptics; a press while neither is set calls the onPress handler that was
\* passed exactly once.
C25_DisabledBlocksPress ==
    [][ev' = "press" =>
         IF disabled \/ loading
         THEN onPressCalls' = 0 /\ haptics' = 0
         ELSE hasOnPress => onPressCalls' = 1]_vars

C25_Witness ==
    /\ ev = "press"
    /\ loading /\ ~disabled
    /\ hasOnPress /\ buttonHaptics /\ ~platformWeb
    /\ onPressCalls = 0 /\ haptics = 0

\* ---- Toast properties ----

SeqRunning == toastOpacity.phase \in SeqPhases

SeqHid == ev = "toastElapse" /\ seqCallback = "finished" /\ onHideCalls = 1

\* C26: the sequence calls onHide only as its exit animation ends, with the
\* whole of duration spent in the delay; and a sequence running on a visible
\* toast with an onHide handler does end with that call unless the parent
\* changes visible, duration or onHide first.
C26_AutoDismiss ==
    /\ [][(ev' = "toastElapse" /\ onHideCalls' > 0) =>
            (toastOpacity.phase = "exit" /\ held' = duration)]_vars
    /\ (visible /\ hasOnHide /\ SeqRunning)
           ~> (SeqHid \/ ev \in {"hide", "setToastProps"})

C26_Witness ==
    /\ SeqHid
    /\ visible /\ duration > 1 /\ held = duration

====
